---- MODULE Spec2Model ----
(***************************************************************************)
(* LipIndex: the search executor of RedisClient (query string -> predicate *)
(* -> count -> sorted page), the discovery loops of the two fetchers       *)
(* (LeviLaminaFetcher, EndstonePythonFetcher), the resolution of one       *)
(* repository to a package (fetchPackage), one upstream sub-fetch, and the *)
(* handler of GET /:tooth/:version.                                        *)
(*                                                                         *)
(* A string is a sequence of one-character strings, so that replaceAll,    *)
(* split, startsWith, slice and the regular expression are computed        *)
(* character by character as the code computes them.                       *)
(***************************************************************************)
EXTENDS Integers, Sequences, FiniteSets, TLC

VARIABLES
  index,      \* the indexed packages, in the index's native order
  q,          \* search(): the query string
  perPage,    \* search(): page size
  page,       \* search(): 1-indexed page number
  sort,       \* search(): "hotness" | "updated"
  order,      \* search(): "asc" | "desc"
  spc,        \* search(): position ("idle", "start", "count", "page", "done")
  qList,      \* search(): the token list of q
  query,      \* search(): the redis-om Search built so far
  pageCount,  \* search(): returned pageCount (-1 before it is computed)
  packages,   \* search(): returned packages
  fetcher,    \* fetch(): "levilamina" | "endstone" ("none": no fetch running)
  fpc,        \* fetch(): position ("idle", "loop", "done", "failed")
  seen,       \* what discovery has yielded so far, one summary per repository
  output,     \* the packages fetch() has yielded to its consumer
  errors,     \* number of consola.error calls of the catch clause
  failure,    \* what ended fetch() early ("none", "discovery", "candidate")
  discovery,  \* the search iteration ("idle", "running", "exhausted", "rejected")
  via,        \* fetchPackage(): the fetcher resolving one repository
  candidate,  \* fetchPackage(): the repository, with what upstream holds for it
  rpc,        \* fetchPackage(): position ("idle", "start", "joined", "done")
  rawVersions,\* fetchPackage(): the raw version list once the sub-fetches joined
  resolved,   \* fetchPackage(): what it returned (a package, null) or that it threw
  request,    \* GET /:tooth/:version: the request (params, accepted languages)
  upstream,   \* GET: what each upstream answers (tooth.json, READMEs, version list)
  hpc,        \* GET: position ("idle", "start", "awaiting", "responded")
  tasks,      \* GET: the three promises of Promise.all
  issued,     \* GET: the upstream requests issued so far
  caught,     \* GET: the error the catch block received (<< >>: none)
  res,        \* GET: the response sent (<< >>: none yet)
  logged,     \* GET: what consola.error was given
  call,       \* one upstream sub-fetch of a fetcher: which method makes it
  answers,    \* sub-fetch: what upstream answers to the successive requests
  attempts,   \* sub-fetch: requests sent so far
  cpc,        \* sub-fetch: position ("idle", "fetching", "waiting", "returned")
  ret,        \* sub-fetch: what the method returned, or that it threw
  delays      \* sub-fetch: the delays waited before the retries, in ms

fetchVars == <<fetcher, fpc, seen, output, errors, failure, discovery>>

searchVars == <<index, q, perPage, page, sort, order, spc, qList, query, pageCount, packages>>

resolveVars == <<via, candidate, rpc, rawVersions, resolved>>

routeVars == <<request, upstream, hpc, tasks, issued, caught, res, logged>>

callVars == <<call, answers, attempts, cpc, ret, delays>>

\* what a search() leaves alone, what a fetch() leaves alone, ...
outsideSearch == <<fetchVars, resolveVars, routeVars, callVars>>

outsideFetch == <<searchVars, resolveVars, routeVars, callVars>>

outsideResolve == <<searchVars, fetchVars, routeVars, callVars>>

outsideRoute == <<searchVars, fetchVars, resolveVars, callVars>>

outsideCall == <<searchVars, fetchVars, resolveVars, routeVars>>

vars == <<searchVars, fetchVars, resolveVars, routeVars, callVars>>

CallIdle ==
  /\ call = "none"
  /\ answers = << >>
  /\ attempts = 0
  /\ cpc = "idle"
  /\ ret = << >>
  /\ delays = << >>

RouteIdle ==
  /\ request = << >>
  /\ upstream = << >>
  /\ hpc = "idle"
  /\ tasks = << >>
  /\ issued = {}
  /\ caught = << >>
  /\ res = << >>
  /\ logged = << >>

ResolveIdle ==
  /\ via = "none"
  /\ candidate = << >>
  /\ rpc = "idle"
  /\ rawVersions = << >>
  /\ resolved = << >>

\* ------------------------------------------------------------------ bounds

MaxRawLen == 3      \* every query string of at most this many characters
MaxTokens == 2      \* and every query composed of at most this many words
MaxPageQLen == 2    \* query strings of the paging runs
MaxPerPage == 3
MaxPage == 3
MaxCandidates == 2  \* repositories discovery yields in one fetch()
MaxVersions == 2    \* versions one source lists for a repository
MaxFaults == 1      \* failing or empty-handed sub-fetches per repository

\* ------------------------------------------------------------ characters

Space == " "
Tab == "\t"
Star == "*"
Plus == "+"
Colon == ":"

QueryChars == {"a", "A", "b", Colon, Plus, Star, Space, Tab}

\* [a-z0-9-] within the model's alphabet
TagChars == {"a", "b", "c", "0", "1", "-"}

Min(a, b) == IF a < b THEN a ELSE b

toLowerCase(c) ==
  CASE c = "A" -> "a"
    [] c = "B" -> "b"
    [] c = "C" -> "c"
    [] OTHER -> c

\* ------------------------------------------------- String.prototype helpers

replaceAll(s, from, to) == [i \in 1..Len(s) |-> IF s[i] = from THEN to ELSE s[i]]

RECURSIVE split(_, _)
split(s, sep) ==
  IF \A i \in 1..Len(s) : s[i] # sep
    THEN <<s>>
    ELSE LET i == CHOOSE k \in 1..Len(s) :
                    s[k] = sep /\ \A j \in 1..(k - 1) : s[j] # sep
         IN  <<SubSeq(s, 1, i - 1)>> \o split(SubSeq(s, i + 1, Len(s)), sep)

startsWith(item, c) == Len(item) > 0 /\ item[1] = c

slice(item, from) == SubSeq(item, from + 1, Len(item))

\* /^[a-z0-9-]+:[a-z0-9-]+$/.test(qItem)
isTagTerm(qItem) ==
  \E i \in 2..(Len(qItem) - 1) :
    /\ qItem[i] = Colon
    /\ \A j \in 1..Len(qItem) : j # i => qItem[j] \in TagChars

\* --------------------------------------------------- redis-om Search builder
\* A Search is a tree: the top level ANDs its clauses (none: every entity),
\* a sub-search ORs its clauses.

NewSearch == [op |-> "and", args |-> << >>]
NewSubSearch == [op |-> "or", args |-> << >>]

and(search, sub) == [search EXCEPT !.args = Append(@, sub)]
or(search, sub) == [search EXCEPT !.args = Append(@, sub)]

whereMatches(field, pattern) == [op |-> "matches", field |-> field, pattern |-> pattern]
whereContains(field, value) == [op |-> "contains", field |-> field, value |-> value]

\* Wildcard match of a text against a pattern, '*' standing for any run of
\* characters, letters compared without case.
RECURSIVE glob(_, _)
glob(s, pat) ==
  IF pat = << >> THEN s = << >>
  ELSE IF Head(pat) = Star
    THEN glob(s, Tail(pat)) \/ (s # << >> /\ glob(Tail(s), pat))
    ELSE /\ s # << >>
         /\ toLowerCase(Head(s)) = toLowerCase(Head(pat))
         /\ glob(Tail(s), Tail(pat))

\* .matches(pattern) on a text field
matches(text, pattern) == glob(text, pattern)

\* .contains(value) on a string[] field: some element is the value, or, when the
\* value carries wildcards, some element matches it
contains(list, value) ==
  IF \E i \in 1..Len(value) : value[i] = Star
    THEN \E i \in 1..Len(list) : glob(list[i], value)
    ELSE \E i \in 1..Len(list) : list[i] = value

RECURSIVE Eval(_, _)
Eval(w, p) ==
  CASE w.op = "and" -> \A i \in 1..Len(w.args) : Eval(w.args[i], p)
    [] w.op = "or" -> \E i \in 1..Len(w.args) : Eval(w.args[i], p)
    [] w.op = "matches" -> matches(p[w.field], w.pattern)
    [] w.op = "contains" -> contains(p[w.field], w.value)

\* ------------------------------------------------------- RedisClient.search

qListOfKeepingEmpty(qs) == split(replaceAll(qs, Star, Space), Space)

\* q.replaceAll('*', ' ').split(' ').filter(item => item.length > 0)
qListOf(qs) == SelectSeq(split(replaceAll(qs, Star, Space), Space), LAMBDA item : Len(item) > 0)

optionalQListOf(list) == SelectSeq(list, LAMBDA item : ~startsWith(item, Plus))

exactQListOf(list) ==
  LET kept == SelectSeq(list, LAMBDA item : startsWith(item, Plus))
  IN  [i \in 1..Len(kept) |-> slice(kept[i], 1)]

freeTextWhereNoAuthor(qItem) ==
  LET pattern == <<Star>> \o qItem \o <<Star>>
  IN  or(or(or(NewSubSearch,
        whereMatches("name", pattern)),
        whereMatches("description", pattern)),
        whereContains("tags", pattern))

freeTextWhere(qItem) ==
  LET pattern == <<Star>> \o qItem \o <<Star>>
  IN  or(or(or(or(NewSubSearch,
        whereMatches("name", pattern)),
        whereMatches("description", pattern)),
        whereMatches("author", pattern)),
        whereContains("tags", pattern))

exactWhereFreeText(qItem) == freeTextWhere(qItem)

\* the body of the loop over exactQList
exactWhere(qItem) ==
  IF isTagTerm(qItem)
    THEN or(NewSubSearch, whereContains("tags", qItem))
    ELSE freeTextWhere(qItem)

RECURSIVE exactLoop(_, _)
exactLoop(search, exactQList) ==
  IF exactQList = << >> THEN search
  ELSE exactLoop(and(search, exactWhere(Head(exactQList))), Tail(exactQList))

\* the body of the loop over optionalQList
optionalWhere(qItem) ==
  IF isTagTerm(qItem)
    THEN or(NewSubSearch, whereContains("tags", qItem))
    ELSE freeTextWhere(qItem)

optionalLoopNarrowing(subQuery, optionalQList) ==
  IF optionalQList = << >> THEN subQuery
  ELSE [op |-> "and",
        args |-> [i \in 1..Len(optionalQList) |-> optionalWhere(optionalQList[i])]]

RECURSIVE optionalLoop(_, _)
optionalLoop(subQuery, optionalQList) ==
  IF optionalQList = << >> THEN subQuery
  ELSE optionalLoop(or(subQuery, optionalWhere(Head(optionalQList))), Tail(optionalQList))

optionalGroupUnguarded(search, optionalQList) ==
  and(search, optionalLoop(NewSubSearch, optionalQList))

optionalGroup(search, optionalQList) ==
  IF Len(optionalQList) > 0
    THEN and(search, optionalLoop(NewSubSearch, optionalQList))
    ELSE search

buildQueryFromOneChar(qs) ==
  IF Len(qs) > 0
    THEN LET list == qListOf(qs)
         IN  optionalGroup(exactLoop(NewSearch, exactQListOf(list)), optionalQListOf(list))
    ELSE NewSearch

buildQuery(qs) ==
  IF Len(qs) > 1
    THEN LET list == qListOf(qs)
         IN  optionalGroup(exactLoop(NewSearch, exactQListOf(list)), optionalQListOf(list))
    ELSE NewSearch

\* query.count()
count(search, idx) == Len(SelectSeq(idx, LAMBDA p : Eval(search, p)))

floorDiv(n, d) == n \div d

ceilDiv(n, d) == (n + d - 1) \div d

offsetOfZeroBased(pg, per) == pg * per

offsetOf(pg, per) == (pg - 1) * per

before(a, b, field, dir) ==
  IF dir = "ASC" THEN a[field] < b[field] ELSE a[field] > b[field]

\* sortBy: records with equal keys keep the index's native order
RECURSIVE sortBy(_, _, _)
sortBy(s, field, dir) ==
  IF s = << >> THEN << >>
  ELSE LET rest == sortBy(SubSeq(s, 1, Len(s) - 1), field, dir)
           x == s[Len(s)]
           k == Cardinality({i \in 1..Len(rest) : ~before(x, rest[i], field, dir)})
       IN  SubSeq(rest, 1, k) \o <<x>> \o SubSeq(rest, k + 1, Len(rest))

sortFieldMap(s) == IF s = "hotness" THEN "hotness" ELSE "updated"
sortOrderMap(o) == IF o = "asc" THEN "ASC" ELSE "DESC"

\* .return.page(offset, count)
returnPage(s, offset, cnt) == SubSeq(s, offset + 1, Min(offset + cnt, Len(s)))

\* ------------------------------------------------------------ the packages

Str1(a) == <<a>>
Str2(a, b) == <<a, b>>
Str3(a, b, c) == <<a, b, c>>
Str4(a, b, c, d) == <<a, b, c, d>>

Pkg(id, name, description, author, tags, hotness, updated) ==
  [identifier |-> id, name |-> name, description |-> description, author |-> author,
   tags |-> tags, hotness |-> hotness, updated |-> updated]

\* 'updated' is an ISO-8601 string in the code; strings of that one format order
\* as the instants they denote, which the model keeps as numbers.
AllPackages ==
  << Pkg(1, Str2("a", "A"), << >>, << >>, << >>, 2, 1),
     Pkg(2, << >>, Str2("B", "b"), << >>, << >>, 1, 3),
     Pkg(3, << >>, << >>, Str2("b", "A"), << >>, 2, 2),
     Pkg(4, << >>, << >>, << >>, <<Str3("a", Colon, "a")>>, 0, 5),
     Pkg(5, << >>, << >>, << >>, <<Str1("-"), Str4("a", Colon, "a", "B")>>, 3, 3),
     Pkg(6, Str3("a", Colon, "a"), << >>, << >>, << >>, 1, 7),
     Pkg(7, << >>, << >>, << >>, <<Str1("-")>>, 0, 6) >>

Universe == {AllPackages[i] : i \in 1..Len(AllPackages)}

Indexes == {SubSeq(AllPackages, 1, n) : n \in 0..Len(AllPackages)}

\* ------------------------------------------------------- the query strings

Strings(n) == UNION {[1..k -> QueryChars] : k \in 0..n}

Words == {Str1("a"), Str1("A"), Str1("b"), Str3("a", Colon, "a"), Str3("A", Colon, "a")}
Tokens == Words \cup {<<Plus>> \o w : w \in Words}
Seps == {Str1(Space), Str1(Star), Str1(Tab)}

RECURSIVE Composed(_)
Composed(n) ==
  IF n = 0 THEN {<< >>}
  ELSE LET shorter == Composed(n - 1)
       IN  shorter \cup Tokens
             \cup {c \o s \o t : c \in shorter \ {<< >>}, s \in Seps, t \in Tokens}

ParseQueries == Strings(MaxRawLen) \cup Composed(MaxTokens)

PageChars == {"a", "b", Plus}
PageQueries == UNION {[1..k -> PageChars] : k \in 0..MaxPageQLen}

\* ------------------------------------------------------------------ search

FetchIdle ==
  /\ fetcher = "none"
  /\ fpc = "idle"
  /\ seen = << >>
  /\ output = << >>
  /\ errors = 0
  /\ failure = "none"
  /\ discovery = "idle"

InitSearch ==
  /\ FetchIdle
  /\ ResolveIdle
  /\ RouteIdle
  /\ CallIdle
  /\ spc = "start"
  /\ qList = << >>
  /\ query = NewSearch
  /\ pageCount = -1
  /\ packages = << >>
  /\ \/ /\ q \in ParseQueries
        /\ index = AllPackages
        /\ perPage = MaxPerPage
        /\ page = 1
        /\ sort = "hotness"
        /\ order = "desc"
     \/ /\ q \in PageQueries
        /\ index \in Indexes
        /\ perPage \in 1..MaxPerPage
        /\ page \in 1..MaxPage
        /\ sort \in {"hotness", "updated"}
        /\ order \in {"asc", "desc"}

\* createIndex, then the query is built from q
SearchBuild ==
  /\ spc = "start"
  /\ qList' = IF Len(q) > 1 THEN qListOf(q) ELSE << >>
  /\ query' = buildQuery(q)
  /\ spc' = "count"
  /\ UNCHANGED <<index, q, perPage, page, sort, order, pageCount, packages>>
  /\ UNCHANGED outsideSearch

\* const pageCount = Math.ceil(await query.count() / perPage)
SearchCount ==
  /\ spc = "count"
  /\ pageCount' = ceilDiv(count(query, index), perPage)
  /\ spc' = "page"
  /\ UNCHANGED <<index, q, perPage, page, sort, order, qList, query, packages>>
  /\ UNCHANGED outsideSearch

\* query.sortBy(...).return.page(offset, perPage)
SearchPage ==
  /\ spc = "page"
  /\ packages' = returnPage(
        sortBy(SelectSeq(index, LAMBDA p : Eval(query, p)),
               sortFieldMap(sort), sortOrderMap(order)),
        offsetOf(page, perPage), perPage)
  /\ spc' = "done"
  /\ UNCHANGED <<index, q, perPage, page, sort, order, qList, query, pageCount>>
  /\ UNCHANGED outsideSearch

NextSearch == SearchBuild \/ SearchCount \/ SearchPage

SpecSearch == InitSearch /\ [][NextSearch]_vars

\* ----------------------------------------------- what the claims speak about

\* The characters search() cuts the query at: '*' becomes ' ', ' ' separates.
IsCut(c) == c = Space \/ c = Star
IsWhitespace(c) == c = Space \/ c = Tab

\* q[i..j] is a maximal run of characters free of cuts
IsRun(qs, i, j) ==
  /\ 1 <= i /\ i <= j /\ j <= Len(qs)
  /\ \A k \in i..j : ~IsCut(qs[k])
  /\ (i = 1 \/ IsCut(qs[i - 1]))
  /\ (j = Len(qs) \/ IsCut(qs[j + 1]))

Runs(qs) == {r \in (1..Len(qs)) \X (1..Len(qs)) : IsRun(qs, r[1], r[2])}
RunTokens(qs) == {SubSeq(qs, r[1], r[2]) : r \in Runs(qs)}
RequiredTerms(qs) == {Tail(t) : t \in {u \in RunTokens(qs) : u[1] = Plus}}
OptionalTerms(qs) == {t \in RunTokens(qs) : t[1] # Plus}

\* key:value over lowercase letters, digits and hyphens
IsKeyValue(t) ==
  /\ Cardinality({i \in 1..Len(t) : t[i] = Colon}) = 1
  /\ Len(t) >= 3 /\ t[1] # Colon /\ t[Len(t)] # Colon
  /\ \A i \in 1..Len(t) : t[i] \in TagChars \cup {Colon}

\* t occurs in s, letters compared without case
Occurs(t, s) ==
  \E i \in 0..(Len(s) - Len(t)) :
    \A k \in 1..Len(t) : toLowerCase(s[i + k]) = toLowerCase(t[k])

HasTag(p, t) == \E i \in 1..Len(p.tags) : p.tags[i] = t

FreeTextHolds(t, p) ==
  \/ Occurs(t, p.name)
  \/ Occurs(t, p.description)
  \/ Occurs(t, p.author)
  \/ \E i \in 1..Len(p.tags) : Occurs(t, p.tags[i])

TermHolds(t, p) == IF IsKeyValue(t) THEN HasTag(p, t) ELSE FreeTextHolds(t, p)

Done == spc = "done"

\* C1: for a query of more than one character the filter is (AND of the
\* required terms) AND (OR of the optional terms), the OR group being left out
\* when there is no optional term.
C1_RequiredAndOptional ==
  (Done /\ Len(q) > 1) =>
    LET req == RequiredTerms(q)
        opt == OptionalTerms(q)
    IN  \A p \in Universe :
          Eval(query, p) <=>
            /\ \A t \in req : TermHolds(t, p)
            /\ (opt = {} \/ \E t \in opt : TermHolds(t, p))

\* a query of required tokens only returned a package and filtered another out
C1_Witness ==
  /\ Done /\ Len(q) > 1
  /\ RequiredTerms(q) # {} /\ OptionalTerms(q) = {}
  /\ packages # << >>
  /\ \E i \in 1..Len(index) : ~Eval(query, index[i])

Trimmed(qs) ==
  LET keep == {i \in 1..Len(qs) : ~IsWhitespace(qs[i])}
  IN  IF keep = {} THEN << >>
      ELSE LET lo == CHOOSE i \in keep : \A j \in keep : i <= j
               hi == CHOOSE i \in keep : \A j \in keep : j <= i
           IN  SubSeq(qs, lo, hi)

\* C2 as stated: a query whose trimmed form has at most one character filters
\* nothing out (read here on queries of letters and spaces, where trimming and
\* the code's cuts agree on what a blank is).
C2_TrimmedMatchAll ==
  (Done /\ Len(Trimmed(q)) <= 1 /\ \A k \in 1..Len(q) : q[k] \in {"a", "b", Space}) =>
    \A p \in Universe : Eval(query, p)

\* C2 as amended: a query of at most one character (untrimmed) filters nothing out.
C2_ShortMatchAll ==
  (Done /\ Len(q) <= 1) =>
    /\ \A p \in Universe : Eval(query, p)
    /\ pageCount * perPage >= Len(index)

\* a one-letter query returned its page out of the whole index although some
\* indexed package does not hold the letter
C2_Witness ==
  /\ Done /\ Len(q) = 1 /\ ~IsCut(q[1]) /\ ~IsWhitespace(q[1])
  /\ \E i \in 1..Len(index) : ~FreeTextHolds(q, index[i])
  /\ Len(index) > 0
  /\ pageCount = ceilDiv(Len(index), perPage)

\* C3 as stated: no token holds '*' or a whitespace character, none is empty.
C3_NoWhitespaceInTokens ==
  Done =>
    \A i \in 1..Len(qList) :
      /\ Len(qList[i]) > 0
      /\ \A k \in 1..Len(qList[i]) : qList[i][k] # Star /\ ~IsWhitespace(qList[i][k])

\* C3 as amended: the token list is, in order, the maximal runs of the query that
\* are free of '*' and of the space character; no token holds '*' or a space and
\* none is empty.
C3_TokensAreRuns ==
  (Done /\ Len(q) > 1) =>
    LET runs == Runs(q)
    IN  /\ Len(qList) = Cardinality(runs)
        /\ \A r \in runs :
             qList[1 + Cardinality({x \in runs : x[1] < r[1]})] = SubSeq(q, r[1], r[2])
        /\ \A i \in 1..Len(qList) :
             /\ Len(qList[i]) > 0
             /\ \A k \in 1..Len(qList[i]) : ~IsCut(qList[i][k])

\* a query with a '*', a doubled cut and a tab gave two tokens, one holding the tab
C3_Witness ==
  /\ Done /\ Len(qList) = 2
  /\ \E k \in 1..Len(q) : q[k] = Star
  /\ \E i \in 1..Len(qList) : \E k \in 1..Len(qList[i]) : qList[i][k] = Tab

AllFreeText(qs) == \A t \in RequiredTerms(qs) \cup OptionalTerms(qs) : ~IsKeyValue(t)

\* C4: a free-text term holds of a package exactly when it occurs, without case,
\* in name, description, author or an element of tags; a query of free-text
\* words only matches exactly the packages holding one of the words.
C4_FreeText ==
  (Done /\ Len(q) > 1) =>
    LET req == RequiredTerms(q)
        opt == OptionalTerms(q)
    IN  (\A t \in req \cup opt : ~IsKeyValue(t)) =>
          \A p \in Universe :
            /\ (req = {} /\ opt # {}) =>
                 (Eval(query, p) <=> \E t \in opt : FreeTextHolds(t, p))
            /\ (opt = {} /\ req # {}) =>
                 (Eval(query, p) <=> \A t \in req : FreeTextHolds(t, p))

\* two different free-text words, each alone matching a package the other does not
C4_Witness ==
  /\ Done /\ Len(q) > 1 /\ AllFreeText(q)
  /\ RequiredTerms(q) = {} /\ Cardinality(OptionalTerms(q)) = 2
  /\ \A t \in OptionalTerms(q) :
       \E p \in Universe :
         /\ Eval(query, p) /\ FreeTextHolds(t, p)
         /\ \A u \in OptionalTerms(q) \ {t} : ~FreeTextHolds(u, p)
  /\ \E p \in Universe : ~Eval(query, p)

RequiredTags(qs) == {t \in RequiredTerms(qs) : IsKeyValue(t)}

\* C5: with a required term +k:v in the query, every package of the result (and
\* every package the filter lets through) has k:v as an element of tags.
C5_RequiredTag ==
  Done =>
    \A t \in RequiredTags(q) :
      /\ \A p \in Universe : Eval(query, p) => HasTag(p, t)
      /\ \A i \in 1..Len(packages) : HasTag(packages[i], t)

\* +k:v beside another token: a package is returned, while a package holding k:v
\* inside a longer tag and one holding it in its name are indexed and left out
C5_Witness ==
  /\ Done /\ packages # << >>
  /\ Cardinality(RunTokens(q)) >= 2
  /\ \E t \in RequiredTags(q) :
       /\ \E i \in 1..Len(index) :
            ~HasTag(index[i], t) /\ \E k \in 1..Len(index[i].tags) : Occurs(t, index[i].tags[k])
       /\ \E i \in 1..Len(index) : ~HasTag(index[i], t) /\ Occurs(t, index[i].name)

\* the indexed packages (by position) that satisfy the predicate of the query
MatchingAt ==
  IF Len(q) <= 1 THEN 1..Len(index)
  ELSE LET req == RequiredTerms(q)
           opt == OptionalTerms(q)
       IN  {i \in 1..Len(index) :
              /\ \A t \in req : TermHolds(t, index[i])
              /\ (opt = {} \/ \E t \in opt : TermHolds(t, index[i]))}

\* C6: pageCount = ceil(matchCount / perPage), whatever page, sort and order are.
C6_PageCount ==
  Done =>
    LET matchCount == Cardinality(MatchingAt)
    IN  /\ pageCount * perPage >= matchCount
        /\ (pageCount - 1) * perPage < matchCount

\* several pages, the last one partial, some package filtered out
C6_Witness ==
  /\ Done /\ pageCount >= 2
  /\ Cardinality(MatchingAt) % perPage # 0
  /\ Cardinality(MatchingAt) < Len(index)

Better(a, b) == IF order = "desc" THEN a[sort] > b[sort] ELSE a[sort] < b[sort]

\* C7: the returned packages are the positions (page-1)*perPage .. page*perPage-1
\* of the matching packages in the chosen order, and none past the last page.
C7_Page ==
  Done =>
    LET matching == {index[i] : i \in MatchingAt}
        first == (page - 1) * perPage
        left == Cardinality(matching) - first
        n == IF left <= 0 THEN 0 ELSE Min(perPage, left)
    IN  /\ Len(packages) = n
        /\ \A i \in 1..Len(packages) :
             /\ packages[i] \in matching
             /\ \A j \in 1..Len(packages) : packages[j] = packages[i] => j = i
             /\ Cardinality({m \in matching : Better(m, packages[i])}) < first + i
             /\ first + i <= Cardinality({m \in matching : ~Better(packages[i], m)})
        /\ (page > pageCount => packages = << >>)

\* a full first page of three pages in descending hotness, with a filtering query
C7_Witness ==
  /\ Done /\ page = 1 /\ sort = "hotness" /\ order = "desc"
  /\ perPage >= 2 /\ Len(packages) = perPage /\ pageCount = 3
  /\ Cardinality(MatchingAt) < Len(index)

ExtraWords == Words \cup {Str2("b", Tab)}

Widened(qs, t) == qs \o <<Space>> \o t

KeepsMatches(t) ==
  LET wider == buildQuery(Widened(q, t))
  IN  \A p \in Universe : Eval(query, p) => Eval(wider, p)

\* C8 as stated: an added optional word never removes a package from the result.
C8_OptionalWidens == Done => \A t \in ExtraWords : KeepsMatches(t)

\* C8 as amended: it holds for a query of more than one character that already
\* has an optional token.
C8_OptionalWidensOptional ==
  (Done /\ Len(q) > 1 /\ OptionalTerms(q) # {}) => \A t \in ExtraWords : KeepsMatches(t)

\* a query with an optional token, and a word that brings in a package it left out
C8_Witness ==
  /\ Done /\ Len(q) > 1 /\ OptionalTerms(q) # {} /\ RequiredTerms(q) # {}
  /\ \E t \in ExtraWords : \E p \in Universe :
       ~Eval(query, p) /\ Eval(buildQuery(Widened(q, t)), p)

\* ================================================================ fetchers

\* A version string is a sequence of atoms: "v", digits, and the whole suffix
\* "+incompatible" as one atom.
Incompatible == "+incompatible"

GitHub == "github"
Pypi == "pypi"

\* updated: '' until normalizePackage sets it; release instants are 1, 2, ...
Unset == 0

Version(version, releasedAt, source) ==
  [version |-> version, releasedAt |-> releasedAt, source |-> source]

Value(v) == [kind |-> "value", value |-> v]
Null == [kind |-> "null"]
Throw == [kind |-> "throw"]

\* ------------------------------------------------------- normalizePackage

RECURSIVE dedupeVersions(_, _)
dedupeVersions(versions, kept) ==
  IF versions = << >> THEN kept
  ELSE LET v == Head(versions)
       IN  dedupeVersions(Tail(versions),
             IF \E i \in 1..Len(kept) : kept[i].version = v.version
               THEN kept ELSE Append(kept, v))

normalizePackage(packageInfo) ==
  LET versions == sortBy(dedupeVersions(packageInfo.versions, << >>), "releasedAt", "DESC")
  IN  [packageInfo EXCEPT
         !.versions = versions,
         !.updated = IF versions = << >> THEN Unset ELSE versions[1].releasedAt]

\* ------------------------------------------------------ LeviLaminaFetcher

\* goproxyVersionStr.replace(/^v/, '').replace(/\+incompatible/g, '')
versionStrOf(goproxyVersionStr) ==
  LET unprefixed == IF startsWith(goproxyVersionStr, "v")
                      THEN slice(goproxyVersionStr, 1) ELSE goproxyVersionStr
  IN  SelectSeq(unprefixed, LAMBDA a : a # Incompatible)

\* !response.ok -> null; a rejected fetch or response.json() throws
fetchGoProxyVersion(v) ==
  CASE v.info = "ok" -> Value([Time |-> v.time])
    [] v.info = "notfound" -> Null
    [] OTHER -> Throw

fetchToothAt(v) ==
  CASE v.tooth = "ok" -> Value("tooth")
    [] v.tooth = "notfound" -> Null
    [] OTHER -> Throw

RECURSIVE fetchVersionsLoopBreaking(_, _)
fetchVersionsLoopBreaking(goList, versionList) ==
  IF goList = << >> THEN versionList
  ELSE LET v == Head(goList)
           goproxyResp == fetchGoProxyVersion(v)
           toothResp == fetchToothAt(v)
       IN  IF goproxyResp.kind = "throw" \/ toothResp.kind = "throw"
             THEN versionList
             ELSE IF goproxyResp.kind = "null" \/ toothResp.kind = "null"
               THEN versionList
               ELSE fetchVersionsLoopBreaking(Tail(goList),
                      Append(versionList,
                        Version(versionStrOf(v.tag), goproxyResp.value.Time, GitHub)))

RECURSIVE fetchVersionsLoop(_, _)
fetchVersionsLoop(goList, versionList) ==
  IF goList = << >> THEN versionList
  ELSE LET v == Head(goList)
           goproxyResp == fetchGoProxyVersion(v)
           toothResp == fetchToothAt(v)
       IN  fetchVersionsLoop(Tail(goList),
             IF goproxyResp.kind = "throw" \/ toothResp.kind = "throw"
               THEN versionList                     \* caught and logged
               ELSE IF goproxyResp.kind = "null" \/ toothResp.kind = "null"
                 THEN versionList                   \* continue
                 ELSE Append(versionList,
                        Version(versionStrOf(v.tag), goproxyResp.value.Time, GitHub)))

\* the version list of the proxy, then the loop over its lines
fetchVersions(c) ==
  IF c.goProxy = "throw" THEN Throw ELSE Value(fetchVersionsLoop(c.goList, << >>))

leviFetchPackageUnnormalized(c) ==
  LET versions == fetchVersions(c)
  IN  IF c.repo = "throw" \/ c.contributors = "throw" \/ c.tooth = "throw"
         \/ versions.kind = "throw"
        THEN Throw
        ELSE IF c.tooth = "notfound" THEN Null
        ELSE IF versions.value = << >> THEN Null
        ELSE IF c.tooth = "malformed" THEN Throw
        ELSE Value([identifier |-> c.id, platform |-> "platform:levilamina",
                    updated |-> Unset, versions |-> versions.value])

leviFetchPackageKeepingEmpty(c) ==
  LET versions == fetchVersions(c)
  IN  IF c.repo = "throw" \/ c.contributors = "throw" \/ c.tooth = "throw"
         \/ versions.kind = "throw"
        THEN Throw
        ELSE IF c.tooth = "notfound" THEN Null
        ELSE IF c.tooth = "malformed" THEN Throw
        ELSE Value(normalizePackage(
               [identifier |-> c.id, platform |-> "platform:levilamina",
                updated |-> Unset, versions |-> versions.value]))

leviFetchPackage(c) ==
  LET versions == fetchVersions(c)
  IN  IF c.repo = "throw" \/ c.contributors = "throw" \/ c.tooth = "throw"
         \/ versions.kind = "throw"
        THEN Throw                                   \* Promise.all rejects
        ELSE IF c.tooth = "notfound" THEN Null
        ELSE IF versions.value = << >> THEN Null
        ELSE IF c.tooth = "malformed" THEN Throw     \* tooth.info is undefined
        ELSE Value(normalizePackage(
               [identifier |-> c.id, platform |-> "platform:levilamina",
                updated |-> Unset, versions |-> versions.value]))

\* --------------------------------------------------- EndstonePythonFetcher

\* repositoryVersions.map(...)
githubVersions(releases) ==
  [i \in 1..Len(releases) |-> Version(releases[i].tag, releases[i].time, GitHub)]

\* the releases of the registry that hold at least one file
pypiVersions(releases) ==
  LET kept == SelectSeq(releases, LAMBDA r : r.files > 0)
  IN  [i \in 1..Len(kept) |-> Version(kept[i].version, kept[i].time, Pypi)]

\* response.text() parsed as TOML: the body of a not-found response is no TOML
fetchPyprojectMetadata(c) ==
  CASE c.pyproject = "ok" -> Value([project |-> "project"])
    [] c.pyproject = "noproject" -> Value([other |-> "table"])
    [] OTHER -> Throw

fetchPypiPackageMetadata(c) ==
  CASE c.pypi = "notfound" -> Null
    [] c.pypi = "throw" -> Throw
    [] OTHER -> Value(c.pypiReleases)

endstoneFetchPackagePypiFirst(c) ==
  LET pyprojectMetadata == fetchPyprojectMetadata(c)
      pypiPackageMetadata == fetchPypiPackageMetadata(c)
  IN  IF c.repo = "throw" \/ c.contributors = "throw" \/ c.github = "throw"
         \/ pyprojectMetadata.kind = "throw"
        THEN Throw
        ELSE IF "project" \notin DOMAIN pyprojectMetadata.value
          THEN Throw
        ELSE IF pypiPackageMetadata.kind = "throw" THEN Throw
        ELSE LET versions ==
                   IF pypiPackageMetadata.kind = "null"
                     THEN githubVersions(c.releases)
                     ELSE pypiVersions(pypiPackageMetadata.value) \o githubVersions(c.releases)
             IN  IF versions = << >> THEN Null
                 ELSE Value(normalizePackage(
                        [identifier |-> c.id, platform |-> "platform:endstone",
                         updated |-> Unset, versions |-> versions]))

endstoneFetchPackageUnnormalized(c) ==
  LET pyprojectMetadata == fetchPyprojectMetadata(c)
      pypiPackageMetadata == fetchPypiPackageMetadata(c)
  IN  IF c.repo = "throw" \/ c.contributors = "throw" \/ c.github = "throw"
         \/ pyprojectMetadata.kind = "throw"
        THEN Throw
        ELSE IF "project" \notin DOMAIN pyprojectMetadata.value
          THEN Throw
        ELSE IF pypiPackageMetadata.kind = "throw" THEN Throw
        ELSE LET versions ==
                   IF pypiPackageMetadata.kind = "null"
                     THEN githubVersions(c.releases)
                     ELSE githubVersions(c.releases) \o pypiVersions(pypiPackageMetadata.value)
             IN  IF versions = << >> THEN Null
                 ELSE Value([identifier |-> c.id, platform |-> "platform:endstone",
                             updated |-> Unset, versions |-> versions])

endstoneFetchPackage(c) ==
  LET pyprojectMetadata == fetchPyprojectMetadata(c)
      pypiPackageMetadata == fetchPypiPackageMetadata(c)
  IN  IF c.repo = "throw" \/ c.contributors = "throw" \/ c.github = "throw"
         \/ pyprojectMetadata.kind = "throw"
        THEN Throw                                   \* Promise.all rejects
        ELSE IF "project" \notin DOMAIN pyprojectMetadata.value
          THEN Throw                                 \* pyprojectMetadata.project.name
        ELSE IF pypiPackageMetadata.kind = "throw" THEN Throw
        ELSE LET versions ==
                   IF pypiPackageMetadata.kind = "null"
                     THEN githubVersions(c.releases)
                     ELSE githubVersions(c.releases) \o pypiVersions(pypiPackageMetadata.value)
             IN  IF versions = << >> THEN Null
                 ELSE Value(normalizePackage(
                        [identifier |-> c.id, platform |-> "platform:endstone",
                         updated |-> Unset, versions |-> versions]))

fetchPackage(f, c) == IF f = "levilamina" THEN leviFetchPackage(c) ELSE endstoneFetchPackage(c)

\* ------------------------------------------------- what discovery can yield

Outcome == {"ok", "throw"}

GoTag(i) == <<"v", IF i = 1 THEN "1" ELSE IF i = 2 THEN "2" ELSE "3">>
ReleaseTag(i) == <<IF i = 1 THEN "1" ELSE IF i = 2 THEN "2" ELSE "3">>

\* The i-th line of a list is released at instant i: the proxy and the hosts
\* list oldest first.
GoLists ==
  UNION {{[i \in 1..n |-> [tag |-> GoTag(i), info |-> f[i][1], tooth |-> f[i][2], time |-> i]] :
            f \in [1..n -> {"ok", "notfound", "throw"} \X {"ok", "notfound", "throw"}]}
         : n \in 0..MaxVersions}

Releases ==
  {[i \in 1..n |-> [tag |-> ReleaseTag(i), time |-> i]] : n \in 0..MaxVersions}

PypiReleases ==
  UNION {{[i \in 1..n |-> [version |-> ReleaseTag(i), files |-> f[i], time |-> i]] :
            f \in [1..n -> 0..1]}
         : n \in 0..MaxVersions}

\* the sub-fetches of one version that fail or find nothing
GoListFaults(l) ==
  Cardinality({i \in 1..Len(l) : l[i].info # "ok"})
  + Cardinality({i \in 1..Len(l) : l[i].tooth # "ok"})

\* the sub-fetches of a repository that fail or find nothing
LeviFaults(c) ==
  (IF c.repo = "ok" THEN 0 ELSE 1) + (IF c.contributors = "ok" THEN 0 ELSE 1)
  + (IF c.tooth = "ok" THEN 0 ELSE 1) + (IF c.goProxy = "ok" THEN 0 ELSE 1)
  + GoListFaults(c.goList)

EndstoneFaults(c) ==
  (IF c.repo = "ok" THEN 0 ELSE 1) + (IF c.contributors = "ok" THEN 0 ELSE 1)
  + (IF c.pyproject = "ok" THEN 0 ELSE 1) + (IF c.github = "ok" THEN 0 ELSE 1)
  + (IF c.pypi = "throw" THEN 1 ELSE 0)

\* self: the repository is LiteLDev/LeviLamina
LeviCandidates ==
  {c \in [self : BOOLEAN, repo : Outcome, contributors : Outcome,
          tooth : {"ok", "notfound", "throw", "malformed"},
          goProxy : Outcome,
          goList : {l \in GoLists : GoListFaults(l) <= MaxFaults}] :
     /\ LeviFaults(c) <= MaxFaults
     /\ (c.goProxy = "throw" => c.goList = << >>)
     /\ (c.self => LeviFaults(c) = 0 /\ Len(c.goList) = 1)}

EndstoneCandidates ==
  {c \in [repo : Outcome, contributors : Outcome,
          pyproject : {"ok", "notfound", "throw", "noproject"},
          github : Outcome, releases : Releases,
          pypi : {"ok", "notfound", "throw"}, pypiReleases : PypiReleases] :
     /\ EndstoneFaults(c) <= MaxFaults
     /\ (c.github = "throw" => c.releases = << >>)
     /\ (c.pypi # "ok" => c.pypiReleases = << >>)
     /\ Len(c.releases) + Len(c.pypiReleases) <= MaxVersions}

Candidates(f) == IF f = "levilamina" THEN LeviCandidates ELSE EndstoneCandidates

\* ---- what a repository is, read off its sub-fetches (kept with `seen`)

ManifestAbsent(f, c) ==
  IF f = "levilamina" THEN c.tooth = "notfound" ELSE c.pyproject = "notfound"

UsableVersions(f, c) ==
  IF f = "levilamina"
    THEN {i \in 1..Len(c.goList) : c.goList[i].info = "ok" /\ c.goList[i].tooth = "ok"}
    ELSE {<<GitHub, i>> : i \in 1..Len(c.releases)}
         \cup {<<Pypi, i>> : i \in {k \in 1..Len(c.pypiReleases) : c.pypiReleases[k].files > 0}}

AllSubFetchesFine(f, c) ==
  /\ c.repo = "ok" /\ c.contributors = "ok"
  /\ IF f = "levilamina"
       THEN c.tooth = "ok" /\ c.goProxy = "ok"
       ELSE c.pyproject = "ok" /\ c.github = "ok" /\ c.pypi # "throw"

Summary(f, c, id) ==
  [id |-> id,
   skipped |-> (f = "levilamina" /\ c.self),
   manifestAbsent |-> ManifestAbsent(f, c),
   noVersions |-> (UsableVersions(f, c) = {}),
   resolves |-> (AllSubFetchesFine(f, c) /\ UsableVersions(f, c) # {})]

\* ------------------------------------------------------------- fetch()

SearchIdle ==
  /\ index = << >> /\ q = << >> /\ perPage = 1 /\ page = 1
  /\ sort = "hotness" /\ order = "desc"
  /\ spc = "idle" /\ qList = << >> /\ query = NewSearch
  /\ pageCount = -1 /\ packages = << >>

InitFetch ==
  /\ SearchIdle
  /\ ResolveIdle
  /\ RouteIdle
  /\ CallIdle
  /\ fetcher \in {"levilamina", "endstone"}
  /\ fpc = "loop"
  /\ seen = << >>
  /\ output = << >>
  /\ errors = 0
  /\ failure = "none"
  /\ discovery = "running"

catchClauseRethrowing(f) == [fpc |-> "failed", failure |-> "candidate"]

\* where the loop goes when fetchPackage throws: the catch clause logs and the
\* loop takes the next repository
catchClause(f) == [fpc |-> "loop", failure |-> "none"]

\* the search iteration can hand the loop body one more repository
MoreToDiscover == fpc = "loop" /\ Len(seen) < MaxCandidates

Discovered(c) == seen' = Append(seen, Summary(fetcher, c, Len(seen) + 1))

Skipped(c) == fetcher = "levilamina" /\ c.self

Resolved(c) == fetchPackage(fetcher, c @@ [id |-> Len(seen) + 1])

\* LeviLaminaFetcher: the repository is LeviLamina itself, continue
LoopSkip ==
  /\ MoreToDiscover
  /\ \E c \in Candidates(fetcher) : Skipped(c) /\ Discovered(c)
  /\ UNCHANGED <<fetcher, fpc, output, errors, failure, discovery>>
  /\ UNCHANGED outsideFetch

\* fetchPackage returned a package: yield it
LoopYield ==
  /\ MoreToDiscover
  /\ \E c \in Candidates(fetcher) :
       /\ ~Skipped(c)
       /\ Resolved(c).kind = "value"
       /\ Discovered(c)
       /\ output' = Append(output, Resolved(c).value)
  /\ UNCHANGED <<fetcher, fpc, errors, failure, discovery>>
  /\ UNCHANGED outsideFetch

\* fetchPackage returned null: nothing is yielded
LoopNull ==
  /\ MoreToDiscover
  /\ \E c \in Candidates(fetcher) :
       /\ ~Skipped(c)
       /\ Resolved(c).kind = "null"
       /\ Discovered(c)
  /\ UNCHANGED <<fetcher, fpc, output, errors, failure, discovery>>
  /\ UNCHANGED outsideFetch

\* fetchPackage threw: the catch clause
LoopCatch ==
  /\ MoreToDiscover
  /\ \E c \in Candidates(fetcher) :
       /\ ~Skipped(c)
       /\ Resolved(c).kind = "throw"
       /\ Discovered(c)
  /\ errors' = errors + 1
  /\ fpc' = catchClause(fetcher).fpc
  /\ failure' = catchClause(fetcher).failure
  /\ UNCHANGED <<fetcher, output, discovery>>
  /\ UNCHANGED outsideFetch

\* the search iteration is exhausted: fetch() returns
DiscoverEnd ==
  /\ fpc = "loop"
  /\ fpc' = "done"
  /\ discovery' = "exhausted"
  /\ UNCHANGED <<fetcher, seen, output, errors, failure>>
  /\ UNCHANGED outsideFetch

searchRejectsSwallowed(f) == [fpc |-> "done", failure |-> "none"]

\* where fetch() goes when the for-await iteration rejects: the loop is inside
\* no try block, so the async generator rejects to its consumer
searchRejects(f) == [fpc |-> "failed", failure |-> "discovery"]

\* the search iteration itself rejects
DiscoverFail ==
  /\ fpc = "loop"
  /\ discovery' = "rejected"
  /\ fpc' = searchRejects(fetcher).fpc
  /\ failure' = searchRejects(fetcher).failure
  /\ UNCHANGED <<fetcher, seen, output, errors>>
  /\ UNCHANGED outsideFetch

NextFetch ==
  \/ LoopSkip \/ LoopYield \/ LoopNull \/ LoopCatch
  \/ DiscoverEnd \/ DiscoverFail

SpecFetch == InitFetch /\ [][NextFetch]_vars

\* ------------------------------------------------ the claims on fetch()

\* the repositories the loop body resolved to a package, by position in `seen`
ResolvedAt == {i \in 1..Len(seen) : seen[i].resolves /\ ~seen[i].skipped}

Emitted(id) == \E k \in 1..Len(output) : output[k].identifier = id

\* C9: a repository that fails to resolve never ends fetch(): only the search
\* iteration does, and the output is, in discovery order, one package for each
\* repository taken so far whose sub-fetches gave a manifest and a usable
\* version (the LeviLamina repository itself, which the loop skips, aside).
C9_FailureIsolated ==
  fpc # "idle" =>
    /\ failure # "candidate"
    /\ (fpc = "failed" => failure = "discovery")
    /\ Len(output) = Cardinality(ResolvedAt)
    /\ \A i \in ResolvedAt :
         output[Cardinality({j \in ResolvedAt : j <= i})].identifier = seen[i].id

\* the first repository threw, a later one was emitted, and fetch() returned
C9_Witness ==
  /\ fpc = "done" /\ errors >= 1 /\ Len(seen) >= 2
  /\ ~seen[1].resolves /\ ~seen[1].skipped /\ ~seen[1].manifestAbsent /\ ~seen[1].noVersions
  /\ \E j \in 2..Len(seen) : seen[j].resolves /\ Emitted(seen[j].id)

C11_OnlyDiscoveryEndsFetch ==
  [][/\ (fpc' = "failed") = (discovery' = "rejected")
     /\ (failure' = "discovery") = (discovery' = "rejected")
     /\ failure' \in {"none", "discovery"}
     /\ (fpc # "failed" /\ fpc' = "failed") => output' = output
     /\ errors' # errors => (fpc' = "loop" /\ failure' = "none")]_vars

\* a repository's resolution threw and was logged, a later one was emitted,
\* and then the search iteration rejected
C11_Witness ==
  /\ fpc = "failed" /\ discovery = "rejected" /\ failure = "discovery"
  /\ errors >= 1 /\ Len(output) >= 1

\* ======================================================= fetchPackage()
\* One repository resolved by one fetcher, with every version list, release
\* instant and tag name the upstream sources can hold for it.

MaxListed == 2      \* versions one source lists in these runs

\* release instants: two versions can carry the same one
Instants == {1, 2}

\* lines of the proxy's version list
RichGoTags == {<<"v", "1">>, <<"v", "1", Incompatible>>, <<"v", "2">>}

\* tag names of the host's releases, and the registry's version strings
RichReleaseTags == {<<"1">>, <<"v", "1">>, <<"2">>}

RichPypiVersions == {<<"1">>, <<"2">>}

SubFetch == {"ok", "notfound", "throw"}

RichGoLists ==
  UNION {{l \in {[i \in 1..n |-> [tag |-> t[i][1], time |-> t[i][2],
                                  info |-> f[i][1], tooth |-> f[i][2]]] :
                   t \in [1..n -> RichGoTags \X Instants],
                   f \in [1..n -> SubFetch \X SubFetch]} :
            GoListFaults(l) <= MaxFaults}
         : n \in 0..MaxListed}

RichReleases ==
  UNION {{[i \in 1..n |-> [tag |-> t[i][1], time |-> t[i][2]]] :
            t \in [1..n -> RichReleaseTags \X Instants]}
         : n \in 0..MaxListed}

\* releases is an object: one key per version string
RichPypiReleases ==
  UNION {{l \in {[i \in 1..n |-> [version |-> t[i][1], files |-> t[i][2], time |-> t[i][3]]] :
                   t \in [1..n -> RichPypiVersions \X (0..1) \X Instants]} :
            \A i, j \in 1..Len(l) : l[i].version = l[j].version => i = j}
         : n \in 0..MaxListed}

RichLeviCandidates ==
  [id : {1}, repo : {"ok"}, contributors : {"ok"}, tooth : {"ok", "notfound"},
   goProxy : {"ok"}, goList : RichGoLists]

RichEndstoneCandidates ==
  {c \in [id : {1}, repo : {"ok"}, contributors : {"ok"}, pyproject : {"ok"},
          github : {"ok"}, releases : RichReleases,
          pypi : {"ok", "notfound"}, pypiReleases : RichPypiReleases] :
     c.pypi # "ok" => c.pypiReleases = << >>}

RichCandidates(f) ==
  IF f = "levilamina" THEN RichLeviCandidates ELSE RichEndstoneCandidates

\* EndstonePythonFetcher.fetchPackage: the versions of the host, then those of
\* the registry
endstoneVersions(c) ==
  LET pypiPackageMetadata == fetchPypiPackageMetadata(c)
  IN  IF pypiPackageMetadata.kind = "value"
        THEN githubVersions(c.releases) \o pypiVersions(pypiPackageMetadata.value)
        ELSE githubVersions(c.releases)

InitResolve ==
  /\ SearchIdle
  /\ FetchIdle
  /\ RouteIdle
  /\ CallIdle
  /\ via \in {"levilamina", "endstone"}
  /\ candidate \in RichCandidates(via)
  /\ rpc = "start"
  /\ rawVersions = << >>
  /\ resolved = << >>

\* the sub-fetches have joined: the version list the package is built from
ResolveJoin ==
  /\ rpc = "start"
  /\ rpc' = "joined"
  /\ rawVersions' = IF via = "levilamina" THEN fetchVersions(candidate).value
                                          ELSE endstoneVersions(candidate)
  /\ UNCHANGED <<via, candidate, resolved>>
  /\ UNCHANGED outsideResolve

\* the guards, the raw package, normalizePackage, return
ResolveReturn ==
  /\ rpc = "joined"
  /\ rpc' = "done"
  /\ resolved' = fetchPackage(via, candidate)
  /\ UNCHANGED <<via, candidate, rawVersions>>
  /\ UNCHANGED outsideResolve

NextResolve == ResolveJoin \/ ResolveReturn

SpecResolve == InitResolve /\ [][NextResolve]_vars

\* ------------------------------------------ the claims on fetchPackage()

\* fetchPackage returned a package
Returned == rpc = "done" /\ resolved.kind = "value"

\* the releases of the host that carry the tag name s
ReleasesTagged(s) ==
  {r \in 1..Len(candidate.releases) : candidate.releases[r].tag = s}

\* C12: an emitted package lists each version string once and loses none of
\* the raw package; in EndstonePythonFetcher a version string that a release
\* of the repository host carries is kept as the host's entry (source
\* 'github', that release's instant), whatever the registry holds for it.
C12_OneEntryPerVersion ==
  Returned =>
    LET vs == resolved.value.versions
    IN  /\ \A i, j \in 1..Len(vs) : vs[i].version = vs[j].version => i = j
        /\ \A k \in 1..Len(rawVersions) :
             \E i \in 1..Len(vs) : vs[i].version = rawVersions[k].version
        /\ via = "endstone" =>
             \A i \in 1..Len(vs) :
               ReleasesTagged(vs[i].version) # {} =>
                 /\ vs[i].source = GitHub
                 /\ \E r \in ReleasesTagged(vs[i].version) :
                      candidate.releases[r].time = vs[i].releasedAt

\* the host released "1" at instant 1, the registry holds "1" uploaded at
\* instant 2, and the package came out with the host's entry alone
C12_Witness ==
  /\ Returned /\ via = "endstone"
  /\ candidate.pypi = "ok"
  /\ \E r \in 1..Len(candidate.releases), k \in 1..Len(candidate.pypiReleases) :
       /\ candidate.releases[r].tag = candidate.pypiReleases[k].version
       /\ candidate.pypiReleases[k].files > 0
       /\ candidate.releases[r].time < candidate.pypiReleases[k].time
  /\ Len(rawVersions) = 2
  /\ Len(resolved.value.versions) = 1
  /\ resolved.value.versions[1].source = GitHub

\* C13 as stated: each entry is released strictly later than the next.
C13_StrictlyDescending ==
  Returned =>
    LET vs == resolved.value.versions
    IN  \A i \in 1..(Len(vs) - 1) : vs[i].releasedAt > vs[i + 1].releasedAt

\* C13 amended: no entry is released earlier than the next (descending, ties
\* allowed), and the entries are those of the raw package.
C13_Descending ==
  Returned =>
    LET vs == resolved.value.versions
    IN  /\ \A i \in 1..(Len(vs) - 1) : vs[i].releasedAt >= vs[i + 1].releasedAt
        /\ \A i \in 1..Len(vs) : \E k \in 1..Len(rawVersions) : vs[i] = rawVersions[k]

\* a raw package listing the older version first came out newest first
C13_Witness ==
  /\ Returned /\ via = "levilamina"
  /\ Len(rawVersions) = 2
  /\ rawVersions[1].releasedAt < rawVersions[2].releasedAt
  /\ Len(resolved.value.versions) = 2
  /\ resolved.value.versions[1] = rawVersions[2]

\* C14: updated is versions[0].releasedAt, no surviving version is released
\* later, and the placeholder of the raw package is not emitted.
C14_Updated ==
  Returned =>
    LET p == resolved.value
    IN  /\ p.updated = p.versions[1].releasedAt
        /\ p.updated # Unset
        /\ \A i \in 1..Len(p.versions) : p.versions[i].releasedAt <= p.updated

\* the later entry of a version string was dropped as a duplicate: updated is
\* the instant of the survivor, not the latest instant of the raw package
C14_Witness ==
  /\ Returned
  /\ Len(resolved.value.versions) = 1
  /\ \E k \in 1..Len(rawVersions) : rawVersions[k].releasedAt > resolved.value.updated

\* C15: no version string of an emitted package starts with 'v' or carries a
\* build-metadata suffix.
C15_BareVersionStrings ==
  Returned =>
    \A i \in 1..Len(resolved.value.versions) :
      LET version == resolved.value.versions[i].version
      IN  /\ version # << >>
          /\ Head(version) # "v"
          /\ \A k \in 1..Len(version) : version[k] # Incompatible

\* the listed versions whose release metadata and manifest are both there
Available ==
  {i \in 1..Len(candidate.goList) :
     candidate.goList[i].info = "ok" /\ candidate.goList[i].tooth = "ok"}

\* a line of the proxy's list without its 'v' and its '+incompatible'
Bare(tag) == SelectSeq(tag, LAMBDA a : a \notin {"v", Incompatible})

\* C19: fetchVersions returns, in list order, one entry for each listed
\* version whose release metadata and manifest are both there, whatever the
\* sub-fetches of the other versions did; and with a manifest at HEAD the
\* package is emitted exactly when one such version exists, with each of them.
C19_VersionDroppedAlone ==
  (via = "levilamina" /\ rpc \in {"joined", "done"}) =>
    /\ Len(rawVersions) = Cardinality(Available)
    /\ \A i \in Available :
         LET v == rawVersions[Cardinality({j \in Available : j <= i})]
         IN  /\ v.version = Bare(candidate.goList[i].tag)
             /\ v.releasedAt = candidate.goList[i].time
    /\ (rpc = "done" /\ candidate.tooth = "ok") =>
         /\ (resolved.kind = "value") = (Available # {})
         /\ resolved.kind = "value" =>
              \A i \in Available :
                \E k \in 1..Len(resolved.value.versions) :
                  resolved.value.versions[k].version = Bare(candidate.goList[i].tag)

\* the first listed version lacked a piece, the second had both: the package
\* was emitted with the second
C19_Witness ==
  /\ via = "levilamina" /\ Returned
  /\ Len(candidate.goList) = 2
  /\ Available = {2}
  /\ Len(resolved.value.versions) = 1

\* ================================================ GET /:tooth/:version

Slash == "/"
Dot == "."
Newline == "\n"

GithubCom == <<"g", "i", "t", "h", "u", "b", ".", "c", "o", "m">>
GithubXCom == <<"g", "i", "t", "h", "u", "b", "x", "c", "o", "m">>
GitlabCom == <<"g", "i", "t", "l", "a", "b", ".", "c", "o", "m">>

Digits == {"0", "1", "2"}

\* [a-zA-Z0-9-] and [a-zA-Z0-9-_.] within the model's alphabet
OwnerClass == {"a", "b", "c", "g", "h", "i", "l", "m", "o", "r", "t", "u", "x", "-"} \cup Digits
RepoClass == OwnerClass \cup {"_", "."}

\* TOOTH_PATH_REGEXP.exec(tooth): the groups, or null. The '.' of the pattern
\* is unescaped: it takes any character.
toothPathMatch(tooth) ==
  IF /\ Len(tooth) >= 14
     /\ SubSeq(tooth, 1, 6) = SubSeq(GithubCom, 1, 6)
     /\ tooth[7] # Newline
     /\ SubSeq(tooth, 8, 10) = SubSeq(GithubCom, 8, 10)
     /\ tooth[11] = Slash
     /\ \E k \in 13..(Len(tooth) - 1) :
          /\ tooth[k] = Slash
          /\ \A j \in 12..(k - 1) : tooth[j] \in OwnerClass
          /\ \A j \in (k + 1)..Len(tooth) : tooth[j] \in RepoClass
    THEN LET k == CHOOSE k \in 13..(Len(tooth) - 1) :
                    /\ tooth[k] = Slash
                    /\ \A j \in 12..(k - 1) : tooth[j] \in OwnerClass
                    /\ \A j \in (k + 1)..Len(tooth) : tooth[j] \in RepoClass
         IN  Value([owner |-> SubSeq(tooth, 12, k - 1),
                    repo |-> SubSeq(tooth, k + 1, Len(tooth))])
    ELSE Null

\* lib/version.js: major.minor.patch, each a number without a leading zero
isValidVersionString(version) ==
  LET parts == split(version, Dot)
  IN  /\ Len(parts) = 3
      /\ \A i \in 1..3 :
           /\ parts[i] # << >>
           /\ \A j \in 1..Len(parts[i]) : parts[i][j] \in Digits
           /\ (Len(parts[i]) > 1 => parts[i][1] # "0")

\* ---- errors and the catch block

HttpError(statusCode, message) ==
  [http |-> TRUE, statusCode |-> statusCode, message |-> message]

BadRequest(message) == HttpError(400, message)

\* any other exception (a TypeError of fetch, a parse error, ...)
PlainError(message) == [http |-> FALSE, message |-> message]

Rejected(error) == [kind |-> "throw", error |-> error]

InternalServerError == <<"Internal server error.">>

catchBlockLeaking(error) ==
  IF error.http
    THEN [status |-> error.statusCode,
          body |-> [code |-> error.statusCode, message |-> error.message],
          logged |-> << >>]
    ELSE [status |-> 500,
          body |-> [code |-> 500, message |-> error.message],
          logged |-> <<error>>]

\* catch (error) { ... }: what is sent and what is logged
catchBlock(error) ==
  IF error.http
    THEN [status |-> error.statusCode,
          body |-> [code |-> error.statusCode, message |-> error.message],
          logged |-> << >>]
    ELSE [status |-> 500,
          body |-> [code |-> 500, message |-> InternalServerError],
          logged |-> <<error>>]

\* ---- the upstream fetches

Response(status, text) == [kind |-> "response", status |-> status, text |-> text]
NetworkError == [kind |-> "neterr"]

ok(response) == response.status \in 200..299

FetchFailed == PlainError(<<"fetch failed">>)

\* fetchToothMetadata: !response.ok throws the upstream status; the body is
\* then parsed (lib/tooth_metadata.js throws on a malformed one)
fetchToothMetadata(response) ==
  IF response.kind = "neterr" THEN Rejected(FetchFailed)
  ELSE IF ~ok(response)
    THEN Rejected(HttpError(response.status,
                            <<"Failed to fetch tooth.json: ", response.text>>))
  ELSE IF response.text = "malformed"
    THEN Rejected(PlainError(<<"malformed tooth.json">>))
  ELSE Value(response.text)

\* fetchReadmeForLang: !response.ok gives null
fetchReadmeForLang(response) ==
  IF response.kind = "neterr" THEN Rejected(FetchFailed)
  ELSE IF ~ok(response) THEN Null
  ELSE Value(response.text)

\* fetchReadme: one fetch per accepted language, then the default README;
\* the first that is there
fetchReadme(responses) ==
  LET readmeList == [i \in 1..Len(responses) |-> fetchReadmeForLang(responses[i])]
  IN  IF \E i \in 1..Len(readmeList) : readmeList[i].kind = "throw"
        THEN Rejected(FetchFailed)
        ELSE IF \A i \in 1..Len(readmeList) : readmeList[i].kind = "null"
          THEN Value("null")
          ELSE Value(readmeList[CHOOSE i \in 1..Len(readmeList) :
                                  /\ readmeList[i].kind = "value"
                                  /\ \A j \in 1..(i - 1) : readmeList[j].kind = "null"].value)

\* tag.replace(/^v/, '').replace(/\+incompatible$/, '')
stripGoTag(tag) ==
  LET unprefixed == IF startsWith(tag, "v") THEN slice(tag, 1) ELSE tag
  IN  IF Len(unprefixed) > 0 /\ unprefixed[Len(unprefixed)] = Incompatible
        THEN SubSeq(unprefixed, 1, Len(unprefixed) - 1)
        ELSE unprefixed

\* fetchVersionList: !response.ok throws the upstream status; the body is
\* split on '\n', its last piece dropped, each tag stripped
fetchVersionList(response) ==
  IF response.kind = "neterr" THEN Rejected(FetchFailed)
  ELSE IF ~ok(response)
    THEN Rejected(HttpError(response.status,
                            <<"Failed to fetch version list: ", response.text>>))
  ELSE LET lines == split(response.text, Newline)
           goTagList == SubSeq(lines, 1, Len(lines) - 1)
       IN  Value([i \in 1..Len(goTagList) |-> stripGoTag(goTagList[i])])

\* ---- what a client can send and what upstream can answer

Owners == {<<"o">>, <<"o", "_">>}
Repos == {<<"r">>, <<"r", "_", ".">>}

ToothParams ==
  {h \o <<Slash>> \o o \o <<Slash>> \o r :
     h \in {GithubCom, GithubXCom, GitlabCom}, o \in Owners, r \in Repos}
  \cup {GithubCom \o <<Slash, "o">>, GithubCom \o <<Slash, "o", Slash>>}

VersionParams ==
  {<<"1", ".", "0", ".", "2">>, <<"1", ".", "0">>,
   <<"v", "1", ".", "0", ".", "2">>, <<"1", ".", "0", "1", ".", "2">>}

AcceptedLanguages == {<< >>, <<"en">>}

ToothResponses ==
  {Response(200, "tooth.json"), Response(200, "malformed"),
   Response(404, "404: Not Found"), Response(500, "upstream trouble"), NetworkError}

ReadmeResponses == {Response(200, "readme"), Response(404, "404: Not Found"), NetworkError}

ListBodies ==
  {<<"v", "1", Newline>>,
   <<"v", "1", Newline, "v", "2", Incompatible, Newline>>,
   <<"v", "1", Newline, "v", "2">>}

ListResponses ==
  {Response(200, b) : b \in ListBodies}
  \cup {Response(404, <<"n", "o">>), Response(500, <<"o", "o">>), NetworkError}

Requests == [tooth : ToothParams, version : VersionParams, langs : AcceptedLanguages]

Upstreams(r) ==
  [tooth : ToothResponses,
   readme : [1..(Len(r.langs) + 1) -> ReadmeResponses],
   list : ListResponses]

\* ---- the handler

InitRoute ==
  /\ SearchIdle
  /\ FetchIdle
  /\ ResolveIdle
  /\ CallIdle
  /\ request \in Requests
  /\ upstream \in Upstreams(request)
  /\ hpc = "start"
  /\ tasks = [t \in {"tooth", "readme", "list"} |-> "unissued"]
  /\ issued = {}
  /\ caught = << >>
  /\ res = << >>
  /\ logged = << >>

\* the first check that fails, as the error it throws (<< >>: both pass)
validationError(r) ==
  IF toothPathMatch(r.tooth).kind = "null"
    THEN BadRequest(<<"Invalid parameter - tooth.">>)
    ELSE IF ~isValidVersionString(r.version)
      THEN BadRequest(<<"Invalid parameter - version.">>)
      ELSE << >>

\* what the catch block does with an error
Catch(error) ==
  /\ caught' = error
  /\ res' = [status |-> catchBlock(error).status, body |-> catchBlock(error).body]
  /\ logged' = catchBlock(error).logged
  /\ hpc' = "responded"

\* a parameter is refused: the throw lands in the catch block
RouteBadRequest ==
  /\ hpc = "start"
  /\ validationError(request) # << >>
  /\ Catch(validationError(request))
  /\ UNCHANGED <<request, upstream, tasks, issued>>
  /\ UNCHANGED outsideRoute

\* both parameters pass: the three fetches start, the handler awaits them
RouteFanOut ==
  /\ hpc = "start"
  /\ validationError(request) = << >>
  /\ hpc' = "awaiting"
  /\ tasks' = [t \in {"tooth", "readme", "list"} |-> "pending"]
  /\ issued' = {"tooth.json", "README.md", "@v/list"}
                 \cup {"README." \o request.langs[i] \o ".md" : i \in 1..Len(request.langs)}
  /\ UNCHANGED <<request, upstream, caught, res, logged>>
  /\ UNCHANGED outsideRoute

TaskOutcome(t) ==
  CASE t = "tooth" -> fetchToothMetadata(upstream.tooth)
    [] t = "readme" -> fetchReadme(upstream.readme)
    [] t = "list" -> fetchVersionList(upstream.list)

\* res.send({code: 200, data: {...}})
sendData ==
  [status |-> 200,
   body |-> [code |-> 200,
             data |-> [tooth |-> TaskOutcome("tooth").value,
                       available_versions |-> TaskOutcome("list").value,
                       readme |-> TaskOutcome("readme").value]]]

\* One of the three promises settles. While the handler awaits Promise.all,
\* the first to reject rejects it and the last to fulfil fulfils it; a promise
\* that settles after Promise.all rejected changes nothing more.
Settle(t) ==
  /\ hpc \in {"awaiting", "responded"}
  /\ tasks[t] = "pending"
  /\ tasks' = [tasks EXCEPT ![t] = IF TaskOutcome(t).kind = "throw"
                                     THEN "rejected" ELSE "fulfilled"]
  /\ IF hpc = "responded"
       THEN UNCHANGED <<hpc, caught, res, logged>>
       ELSE IF TaskOutcome(t).kind = "throw"
         THEN Catch(TaskOutcome(t).error)
         ELSE IF \A u \in DOMAIN tasks : u # t => tasks[u] = "fulfilled"
           THEN /\ res' = sendData
                /\ hpc' = "responded"
                /\ UNCHANGED <<caught, logged>>
           ELSE UNCHANGED <<hpc, caught, res, logged>>
  /\ UNCHANGED <<request, upstream, issued>>
  /\ UNCHANGED outsideRoute

SettleTooth == Settle("tooth")

SettleReadme == Settle("readme")

SettleList == Settle("list")

NextRoute ==
  \/ RouteBadRequest \/ RouteFanOut
  \/ SettleTooth \/ SettleReadme \/ SettleList

SpecRoute == InitRoute /\ [][NextRoute]_vars

\* ----------------------------------- the claims on GET /:tooth/:version

\* github.com/<owner>/<repo>: the literal host, then two segments that are
\* not empty
IsGithubPath(tooth) ==
  /\ Len(tooth) >= 14
  /\ SubSeq(tooth, 1, 10) = GithubCom
  /\ tooth[11] = Slash
  /\ \E k \in 13..(Len(tooth) - 1) :
       /\ tooth[k] = Slash
       /\ \A j \in 12..Len(tooth) : j # k => tooth[j] # Slash

\* C16: a tooth parameter that is no github.com/<owner>/<repo>, or a version
\* that is no semantic version, issues no upstream request and is answered 400.
C16_BadRequest ==
  (hpc # "idle" /\ (~IsGithubPath(request.tooth) \/ ~isValidVersionString(request.version))) =>
    /\ issued = {}
    /\ hpc = "responded" => res.status = 400

\* C17: when the fetch of tooth.json fails with an upstream status (every
\* other upstream answering with some status of its own), the response
\* carries the status of tooth.json.
C17_ManifestStatus ==
  (/\ hpc = "responded"
   /\ tasks["tooth"] = "rejected"
   /\ upstream.tooth.kind = "response" /\ ~ok(upstream.tooth)
   /\ upstream.list.kind = "response"
   /\ \A i \in 1..Len(upstream.readme) : upstream.readme[i].kind = "response") =>
    res.status = upstream.tooth.status

\* C18: an error that is no HTTP error is answered 500 with the generic body
\* and nothing else, and is what consola.error was given.
C18_GenericServerError ==
  (hpc = "responded" /\ caught # << >> /\ ~caught.http) =>
    /\ res = [status |-> 500, body |-> [code |-> 500, message |-> InternalServerError]]
    /\ res.body.message # caught.message
    /\ logged = <<caught>>

\* a tooth.json that does not parse: the exception was caught, logged and
\* answered
C18_Witness ==
  /\ hpc = "responded"
  /\ tasks["tooth"] = "rejected"
  /\ caught = PlainError(<<"malformed tooth.json">>)
  /\ res.status = 500
  /\ logged # << >>

\* ================================================ one upstream sub-fetch
\* fetchTooth and fetchGoProxyVersion (LeviLaminaFetcher) call the global
\* fetch; fetchPyprojectMetadata and fetchPypiPackageMetadata
\* (EndstonePythonFetcher) call fetchBuilder(global.fetch) with the defaults
\* of fetch-retry.

\* fetch-retry defaults: retries: 3, retryDelay: 1000, retryOn: []
retries == 3
retryDelay == 1000
retryOn == {}

LeviCalls == {"fetchTooth", "fetchGoProxyVersion"}
EndstoneCalls == {"fetchPyprojectMetadata", "fetchPypiPackageMetadata"}

\* what upstream can answer to one request: a 200, a 404, a 503, or nothing
\* (the request fails on the network)
Answers == {"ok", "notfound", "unavailable", "neterr"}

StatusOf(answer) ==
  CASE answer = "ok" -> 200
    [] answer = "notfound" -> 404
    [] answer = "unavailable" -> 503

\* whether the fetch in use sends the request again after this answer
retriesAfter(c, answer, sent) ==
  /\ c \in EndstoneCalls
  /\ sent <= retries
  /\ IF answer = "neterr" THEN TRUE ELSE StatusOf(answer) \in retryOn

\* what the method makes of the response it got
handleResponse(c, answer) ==
  LET seenAs == IF StatusOf(answer) \in 200..299 THEN "ok" ELSE "notfound"
  IN  CASE c = "fetchTooth" -> fetchToothAt([tooth |-> seenAs])
        [] c = "fetchGoProxyVersion" -> fetchGoProxyVersion([info |-> seenAs, time |-> 1])
        [] c = "fetchPyprojectMetadata" -> fetchPyprojectMetadata([pyproject |-> seenAs])
        [] c = "fetchPypiPackageMetadata" ->
             fetchPypiPackageMetadata([pypi |-> seenAs, pypiReleases |-> << >>])

InitCall ==
  /\ SearchIdle
  /\ FetchIdle
  /\ ResolveIdle
  /\ RouteIdle
  /\ call \in LeviCalls \cup EndstoneCalls
  /\ answers \in [1..(retries + 1) -> Answers]
  /\ attempts = 0
  /\ cpc = "fetching"
  /\ ret = << >>
  /\ delays = << >>

\* a request is sent and answered with a response: the method handles it
CallResponse ==
  /\ cpc = "fetching"
  /\ answers[attempts + 1] # "neterr"
  /\ ~retriesAfter(call, answers[attempts + 1], attempts + 1)
  /\ attempts' = attempts + 1
  /\ ret' = handleResponse(call, answers[attempts + 1])
  /\ cpc' = "returned"
  /\ UNCHANGED <<call, answers, delays>>
  /\ UNCHANGED outsideCall

\* a request is sent and fails on the network, for the last time: fetch
\* rejects and the method throws
CallThrow ==
  /\ cpc = "fetching"
  /\ answers[attempts + 1] = "neterr"
  /\ ~retriesAfter(call, answers[attempts + 1], attempts + 1)
  /\ attempts' = attempts + 1
  /\ ret' = Throw
  /\ cpc' = "returned"
  /\ UNCHANGED <<call, answers, delays>>
  /\ UNCHANGED outsideCall

\* a request is sent and fetch-retry decides to send it again: it waits
CallWait ==
  /\ cpc = "fetching"
  /\ retriesAfter(call, answers[attempts + 1], attempts + 1)
  /\ attempts' = attempts + 1
  /\ delays' = Append(delays, retryDelay)
  /\ cpc' = "waiting"
  /\ UNCHANGED <<call, answers, ret>>
  /\ UNCHANGED outsideCall

\* the delay is over
CallRetry ==
  /\ cpc = "waiting"
  /\ cpc' = "fetching"
  /\ UNCHANGED <<call, answers, attempts, ret, delays>>
  /\ UNCHANGED outsideCall

NextCall == CallResponse \/ CallThrow \/ CallWait \/ CallRetry

SpecCall == InitCall /\ [][NextCall]_vars

\* -------------------------------------------- the claims on a sub-fetch

\* C20: a request answered 404 is the last one (no retry), and the method
\* then returns null: it does not throw.
C20_NotFoundIsAbsent ==
  \A k \in 1..attempts :
    answers[k] = "notfound" =>
      /\ k = attempts
      /\ cpc = "returned"
      /\ ret = Null

\* a request that failed on the network or was answered with a 5xx
Transient(answer) == answer \in {"neterr", "unavailable"}

\* C21: in both fetchers a request that fails transiently (network error or
\* 5xx) is sent again, after a delay that grows from one retry to the next;
\* the call gives up only on the failure of the last of the retries + 1
\* requests, and a request that succeeds on a retry gives the call its value.
C21_TransientRetried ==
  /\ \A k \in 1..attempts :
       (Transient(answers[k]) /\ k = attempts /\ cpc = "returned") =>
         k = retries + 1
  /\ \A i \in 1..(Len(delays) - 1) : delays[i] < delays[i + 1]
  /\ (cpc = "returned" /\ answers[attempts] = "ok") => ret \notin {Null, Throw}

\* fetchPypiPackageMetadata whose first request failed on the network and
\* whose second was answered 200: the one retry fetch-retry does make
C21_Witness ==
  /\ call = "fetchPypiPackageMetadata"
  /\ attempts = 2
  /\ answers[1] = "neterr"
  /\ answers[2] = "ok"
  /\ delays = <<retryDelay>>
  /\ cpc = "returned"
  /\ ret \notin {Null, Throw}

\* ------------------------------------- the claim on available_versions

\* the lines of a version-list body that are not empty, in order
NonEmptyLines(text) == SelectSeq(split(text, Newline), LAMBDA line : line # << >>)

\* C22: when the handler answers 200, available_versions has one entry per
\* non-empty line of the version-list body, in the order of the body, each
\* without its leading 'v' and its trailing '+incompatible', whether or not
\* the body ends with a newline.
C22_AvailableVersions ==
  (hpc = "responded" /\ res.status = 200) =>
    LET listed == NonEmptyLines(upstream.list.text)
    IN  res.body.data.available_versions =
          [i \in 1..Len(listed) |-> stripGoTag(listed[i])]

\* a body of two lines that ends with a newline: both versions are answered,
\* stripped
C22_Witness ==
  /\ hpc = "responded"
  /\ res.status = 200
  /\ upstream.list.text = <<"v", "1", Newline, "v", "2", Incompatible, Newline>>
  /\ res.body.data.available_versions = <<(<<"1">>), (<<"2">>)>>

====
